---- MODULE Spec2Model ----
(***************************************************************************)
(* Contact-form function (netlify/functions/contact.js).                   *)
(*                                                                         *)
(* A JavaScript string is a sequence of one-character strings.  The fixed  *)
(* pieces of the text and HTML templates are single multi-character        *)
(* tokens, so a one-character element of a rendered body always comes from *)
(* a field of the request or from an entity written by escapeHtml.         *)
(* A JavaScript value is a record tagged by its type in field t.           *)
(***************************************************************************)
EXTENDS Integers, Sequences, FiniteSets, TLC

VARIABLES
    pc,          \* position of the handler invocation
    event,       \* the request handed to the handler
    fields,      \* name, email, subject, message after normalizeString
    mailConfig,  \* what isMailConfigured() did, once called
    envRead,     \* the four recipient settings of process.env, once read
    directory,   \* what listTeamMemberEmails() did, once called
    fromRead,    \* MAIL_FROM and SMTP_USER, once read
    recipients,  \* result of resolveContactRecipients()
    mail,        \* the argument of sendMail, once called
    transport,   \* how the sendMail promise settled
    calls,       \* number of calls made to each collaborator
    response     \* what the invocation produced

vars == <<pc, event, fields, mailConfig, envRead, directory, fromRead,
          recipients, mail, transport, calls, response>>

----------------------------------------------------------------------------
(* Bounds of the model *)

MaxTail == 2
MaxEnvLen == 3
MaxDirLen == 2
MaxMsgLen == 3

----------------------------------------------------------------------------
(* JavaScript values and strings *)

Str(s) == [t |-> "string", s |-> s]
Num(n) == [t |-> "number", n |-> n]
Arr(items) == [t |-> "array", items |-> items]
Undefined == [t |-> "undefined"]
Null == [t |-> "null"]

RECURSIVE SeqsUpTo(_, _)
SeqsUpTo(S, n) ==
    IF n = 0 THEN {<<>>}
    ELSE LET shorter == SeqsUpTo(S, n - 1)
         IN  shorter \cup {Append(s, c) : s \in shorter, c \in S}

\* String.prototype.trim and the regular-expression class \s
WhiteSpace == {" ", "\t", "\n", "\r"}

RECURSIVE TrimStart(_)
TrimStart(s) ==
    IF s # <<>> /\ Head(s) \in WhiteSpace THEN TrimStart(Tail(s)) ELSE s

RECURSIVE TrimEnd(_)
TrimEnd(s) ==
    IF s # <<>> /\ s[Len(s)] \in WhiteSpace
    THEN TrimEnd(SubSeq(s, 1, Len(s) - 1))
    ELSE s

Trim(s) == TrimEnd(TrimStart(s))

Uppers == <<"A", "B", "C", "D", "E", "F", "G", "H", "I", "J", "K", "L", "M",
            "N", "O", "P", "Q", "R", "S", "T", "U", "V", "W", "X", "Y", "Z">>
Lowers == <<"a", "b", "c", "d", "e", "f", "g", "h", "i", "j", "k", "l", "m",
            "n", "o", "p", "q", "r", "s", "t", "u", "v", "w", "x", "y", "z">>

LowerChar(c) ==
    IF \E i \in DOMAIN Uppers : Uppers[i] = c
    THEN Lowers[CHOOSE i \in DOMAIN Uppers : Uppers[i] = c]
    ELSE c

ToLowerCase(s) == [i \in DOMAIN s |-> LowerChar(s[i])]

\* String.prototype.replace(/c/g, r): every occurrence, replaced text not rescanned
RECURSIVE ReplaceAll(_, _, _)
ReplaceAll(s, c, r) ==
    IF s = <<>> THEN <<>>
    ELSE (IF Head(s) = c THEN r ELSE <<Head(s)>>) \o ReplaceAll(Tail(s), c, r)

StartsWith(s, p) == Len(s) >= Len(p) /\ SubSeq(s, 1, Len(p)) = p

RECURSIVE Join(_, _)
Join(lines, sep) ==
    IF lines = <<>> THEN <<>>
    ELSE IF Len(lines) = 1 THEN lines[1]
    ELSE lines[1] \o sep \o Join(Tail(lines), sep)

\* JavaScript truthiness of the values the function handles
Truthy(v) ==
    CASE v.t = "string" -> v.s # <<>>
      [] v.t = "number" -> v.n # 0
      [] v.t = "array" -> TRUE
      [] v.t = "object" -> TRUE
      [] OTHER -> FALSE

\* Array.prototype.filter(Boolean) over an array of JavaScript values
RECURSIVE FilterBoolean(_)
FilterBoolean(xs) ==
    IF xs = <<>> THEN <<>>
    ELSE (IF Truthy(Head(xs)) THEN <<Head(xs)>> ELSE <<>>)
         \o FilterBoolean(Tail(xs))

RECURSIVE Flatten(_)
Flatten(xss) == IF xss = <<>> THEN <<>> ELSE Head(xss) \o Flatten(Tail(xss))

\* a || b
OrElse(a, b) == IF Truthy(a) THEN a ELSE b

----------------------------------------------------------------------------
(* contact.js, the pure functions *)

normalizeString(value) ==
    IF value.t # "string" THEN <<>> ELSE Trim(value.s)

normalizeEmail(value) ==
    IF value.t # "string" THEN <<>> ELSE ToLowerCase(Trim(value.s))

Amp == <<"&", "a", "m", "p", ";">>
Lt == <<"&", "l", "t", ";">>
Gt == <<"&", "g", "t", ";">>
Quot == <<"&", "q", "u", "o", "t", ";">>
Apos == <<"&", "#", "3", "9", ";">>

\* the ampersand replaced last, after the entities were written
escapeHtmlAmpLast(value) ==
    ReplaceAll(ReplaceAll(ReplaceAll(ReplaceAll(ReplaceAll(value,
        "<", Lt), ">", Gt), "\"", Quot), "'", Apos), "&", Amp)

\* lines 14-21
escapeHtml(value) ==
    ReplaceAll(ReplaceAll(ReplaceAll(ReplaceAll(ReplaceAll(value,
        "&", Amp), "<", Lt), ">", Gt), "\"", Quot), "'", Apos)

\* the character class [,;\s] of the split
Separators == {",", ";"} \cup WhiteSpace

\* String.prototype.split(/[,;\s]+/): cut at every maximal run of separators;
\* a run at either end leaves an empty piece there
RECURSIVE SplitFrom(_, _, _, _)
SplitFrom(s, i, cur, acc) ==
    IF i > Len(s) THEN Append(acc, cur)
    ELSE IF s[i] \in Separators
         THEN IF i > 1 /\ s[i - 1] \in Separators
              THEN SplitFrom(s, i + 1, cur, acc)
              ELSE SplitFrom(s, i + 1, <<>>, Append(acc, cur))
         ELSE SplitFrom(s, i + 1, Append(cur, s[i]), acc)

Split(s) == SplitFrom(s, 1, <<>>, <<>>)

parseRecipientList(value) ==
    IF ~Truthy(value) THEN <<>>
    ELSE IF value.t = "array"
    THEN FilterBoolean([i \in DOMAIN value.items |->
                           Str(normalizeEmail(value.items[i]))])
    ELSE LET pieces == Split(value.s)
         IN  FilterBoolean([i \in DOMAIN pieces |->
                               Str(normalizeEmail(Str(pieces[i])))])

\* the forEach of dedupeEmails over an array
RECURSIVE DedupeFrom(_, _, _)
DedupeFrom(values, seen, result) ==
    IF values = <<>> THEN result
    ELSE LET email == Head(values)
             normalized == normalizeEmail(email)
         IN  IF normalized = <<>> \/ normalized \in seen
             THEN DedupeFrom(Tail(values), seen, result)
             ELSE DedupeFrom(Tail(values), seen \cup {normalized},
                             Append(result, email))

\* values = [] by default; forEach exists on arrays only
dedupeEmails(values) ==
    IF values.t = "undefined" THEN [threw |-> FALSE, value |-> <<>>]
    ELSE IF values.t # "array" THEN [threw |-> TRUE, value |-> <<>>]
    ELSE [threw |-> FALSE, value |-> DedupeFrom(values.items, {}, <<>>)]

\* /^[^\s@]+@[^\s@]+\.[^\s@]+$/
MatchesEmailShape(s) ==
    \E at \in 2 .. Len(s) :
        /\ s[at] = "@"
        /\ \A j \in DOMAIN s : j # at => s[j] \notin WhiteSpace \cup {"@"}
        /\ \E dot \in at + 2 .. Len(s) - 1 : s[dot] = "."

isLikelyEmail(value) ==
    IF value.t # "string" THEN FALSE
    ELSE LET normalized == Trim(value.s)
         IN  normalized # <<>> /\ MatchesEmailShape(normalized)

\* submittedAt.toISOString(): the ISO-8601 rendering of the processing time
SubmittedLabel == "<ISO-8601 timestamp>"

\* Array.prototype.join over an array of strings
JoinStrings(lines, sep) == Join([i \in DOMAIN lines |-> lines[i].s], sep)

formatEmailBody(name, email, subject, message) ==
    LET safeMessage == escapeHtml(message)
        safeName == escapeHtml(name)
        safeEmail == escapeHtml(email)
        lines == FilterBoolean(<<
            Str(<<"New contact form submission received.">>),
            Str(<<"Submitted at: ", SubmittedLabel>>),
            IF name # <<>> THEN Str(<<"Name: ">> \o name) ELSE Null,
            IF email # <<>> THEN Str(<<"Email: ">> \o email) ELSE Null,
            Str(<<>>),
            Str(message) >>)
        html ==
            << "<p><strong>New contact form submission received.</strong></p>",
               "<ul>",
               "<li><strong>Submitted at:</strong> ", SubmittedLabel, "</li>" >>
            \o (IF name # <<>>
                THEN <<"<li><strong>Name:</strong> ">> \o safeName \o <<"</li>">>
                ELSE <<>>)
            \o (IF email # <<>>
                THEN <<"<li><strong>Email:</strong> ">> \o safeEmail \o <<"</li>">>
                ELSE <<>>)
            \o << "</ul>", "<p><strong>Message:</strong></p>", "<blockquote>" >>
            \o ReplaceAll(safeMessage, "\n", <<"<br>">>)
            \o << "</blockquote>" >>
    IN  [text |-> JoinStrings(lines, <<"\n">>), html |-> html]

\* the literal tested by startsWith and the literal prepended
SubjectTested ==
    <<"W", "e", "b", "s", "i", "t", "e", " ", "c", "o", "n", "t", "a", "c", "t", ":">>
SubjectPrepended == SubjectTested \o <<" ">>

safeSubject(subject) ==
    IF StartsWith(subject, SubjectTested) THEN subject
    ELSE SubjectPrepended \o subject

----------------------------------------------------------------------------
(* The handler, one action per stretch of code between collaborator calls *)

\* body?.name and the like: a property of an object, undefined of anything else
Field(body, f) == IF body.t = "object" THEN body[f] ELSE Undefined

Pending == [st |-> "pending"]
Threw == [st |-> "threw"]
Returned(status, body) == [st |-> "returned", statusCode |-> status, body |-> body]

NotYet == [st |-> "no"]
NoFields == [name |-> <<>>, email |-> <<>>, subject |-> <<>>, message |-> <<>>]
NoCalls == [config |-> 0, directory |-> 0, send |-> 0]

Init ==
    /\ pc = "idle"
    /\ event = NotYet
    /\ fields = NoFields
    /\ mailConfig = NotYet
    /\ envRead = NotYet
    /\ directory = NotYet
    /\ fromRead = NotYet
    /\ recipients = <<>>
    /\ mail = NotYet
    /\ transport = NotYet
    /\ calls = NoCalls
    /\ response = Pending

\* the runtime invokes the handler with a request
Invoke(Events) ==
    /\ pc = "idle"
    /\ \E e \in Events : event' = [st |-> "given", body |-> e]
    /\ pc' = "config"
    /\ UNCHANGED <<fields, mailConfig, envRead, directory, fromRead, recipients,
                   mail, transport, calls, response>>

\* the invocation is over and nothing of it is kept: module scope holds no state
Finish ==
    /\ pc = "done"
    /\ pc' = "idle"
    /\ event' = NotYet
    /\ fields' = NoFields
    /\ mailConfig' = NotYet
    /\ envRead' = NotYet
    /\ directory' = NotYet
    /\ fromRead' = NotYet
    /\ recipients' = <<>>
    /\ mail' = NotYet
    /\ transport' = NotYet
    /\ calls' = NoCalls
    /\ response' = Pending

\* lines 113-121: isMailConfigured() reports the transport configured or not
ConfigOutcomes == {"true", "false"}

CheckConfig ==
    /\ pc = "config"
    /\ \E outcome \in ConfigOutcomes :
        /\ mailConfig' = [st |-> "called", outcome |-> outcome]
        /\ calls' = [calls EXCEPT !.config = @ + 1]
        /\ IF outcome = "false"
           THEN /\ pc' = "done"
                /\ response' = Returned(503,
                       [error |-> "Email service is not configured. Set SMTP credentials to enable contact form notifications."])
           ELSE pc' = "parse" /\ response' = response
    /\ UNCHANGED <<event, fields, envRead, directory, fromRead, recipients,
                   mail, transport>>

\* JSON.parse(event.body): the value the text denotes, or a SyntaxError
JsonParse(body) ==
    IF body.kind = "invalid" THEN [threw |-> TRUE, value |-> Undefined]
    ELSE [threw |-> FALSE, value |-> body.value]

\* the message check moved ahead of the subject check
validationErrorMessageFirst(subject, message, email) ==
    IF message = <<>> THEN "Message is required"
    ELSE IF subject = <<>> THEN "Subject is required"
    ELSE IF email = <<>> \/ ~isLikelyEmail(Str(email))
         THEN "A valid email address is required"
    ELSE ""

\* lines 138-157: the message of the first check that fails, "" when none does
validationError(subject, message, email) ==
    IF subject = <<>> THEN "Subject is required"
    ELSE IF message = <<>> THEN "Message is required"
    ELSE IF email = <<>> \/ ~isLikelyEmail(Str(email))
         THEN "A valid email address is required"
    ELSE ""

\* lines 123-157
ParseAndValidate ==
    /\ pc = "parse"
    /\ LET parsed == JsonParse(event.body)
           body == parsed.value
           name == normalizeString(Field(body, "name"))
           email == normalizeString(Field(body, "email"))
           subject == normalizeString(Field(body, "subject"))
           message == normalizeString(Field(body, "message"))
           error == validationError(subject, message, email)
       IN  IF parsed.threw
           THEN /\ pc' = "done"
                /\ response' = Returned(400, [error |-> "Invalid JSON"])
                /\ fields' = fields
           ELSE /\ fields' = [name |-> name, email |-> email,
                              subject |-> subject, message |-> message]
                /\ IF error # ""
                   THEN pc' = "done" /\ response' = Returned(400, [error |-> error])
                   ELSE pc' = "resolve" /\ response' = response
    /\ UNCHANGED <<event, mailConfig, envRead, directory, fromRead, recipients,
                   mail, transport, calls>>

\* lines 49-58: envCandidates.flatMap(parseRecipientList), deduplicated
envRecipients(envCandidates) ==
    dedupeEmails(Arr(Flatten([i \in DOMAIN envCandidates |->
                                 parseRecipientList(envCandidates[i])]))).value

\* the directory consulted whatever the settings yield
ResolveEnvThenDirectory(Envs) ==
    /\ pc = "resolve"
    /\ \E envCandidates \in Envs :
        /\ envRead' = [st |-> "read", v |-> envCandidates]
        /\ recipients' = envRecipients(envCandidates)
        /\ pc' = "directory"
    /\ UNCHANGED <<event, fields, mailConfig, directory, fromRead, mail,
                   transport, calls, response>>

\* lines 48-62 of resolveContactRecipients, called at line 159; envCandidates is
\* <<CONTACT_FORM_RECIPIENTS, CONTACT_RECIPIENTS, CONTACT_EMAIL, SUPPORT_EMAIL>>
ResolveEnv(Envs) ==
    /\ pc = "resolve"
    /\ \E envCandidates \in Envs :
        /\ envRead' = [st |-> "read", v |-> envCandidates]
        /\ recipients' = envRecipients(envCandidates)
        /\ pc' = IF recipients' # <<>> THEN "dispatch" ELSE "directory"
    /\ UNCHANGED <<event, fields, mailConfig, directory, fromRead, mail,
                   transport, calls, response>>

\* lines 64-67: listTeamMemberEmails() raises or returns a value
ResolveDirectory(Directories) ==
    /\ pc = "directory"
    /\ \E d \in Directories :
        /\ directory' = [st |-> "called", outcome |-> d]
        /\ calls' = [calls EXCEPT !.directory = @ + 1]
        /\ LET fallback == IF d.kind = "throws"
                           THEN [threw |-> TRUE, value |-> <<>>]
                           ELSE dedupeEmails(d.value)
           IN  IF fallback.threw
               THEN pc' = "done" /\ response' = Threw /\ recipients' = recipients
               ELSE /\ recipients' = fallback.value
                    /\ pc' = IF fallback.value # <<>> THEN "dispatch" ELSE "from"
                    /\ response' = response
    /\ UNCHANGED <<event, fields, mailConfig, envRead, fromRead, mail, transport>>

\* lines 69-72
fromRecipients(env) ==
    LET smtpUser == normalizeEmail(OrElse(env.MAIL_FROM, env.SMTP_USER))
    IN  IF smtpUser # <<>> THEN <<Str(smtpUser)>> ELSE <<>>

ResolveFrom(Froms) ==
    /\ pc = "from"
    /\ \E env \in Froms :
        /\ fromRead' = [st |-> "read", v |-> env]
        /\ recipients' = fromRecipients(env)
    /\ pc' = "dispatch"
    /\ UNCHANGED <<event, fields, mailConfig, envRead, directory, mail,
                   transport, calls, response>>

\* sendMail called without the test for an empty recipient list
DispatchUnchecked ==
    /\ pc = "dispatch"
    /\ LET rendered == formatEmailBody(fields.name, fields.email,
                                       fields.subject, fields.message)
       IN  mail' = [st |-> "sent",
                    to |-> recipients,
                    subject |-> safeSubject(fields.subject),
                    text |-> rendered.text,
                    html |-> rendered.html,
                    replyTo |-> fields.email]
    /\ calls' = [calls EXCEPT !.send = @ + 1]
    /\ pc' = "awaiting"
    /\ UNCHANGED <<event, fields, mailConfig, envRead, directory, fromRead,
                   recipients, transport, response>>

\* lines 160-192: up to the call of sendMail
Dispatch ==
    /\ pc = "dispatch"
    /\ IF recipients = <<>>
       THEN /\ pc' = "done"
            /\ response' = Returned(503,
                   [error |-> "No contact recipients configured. Set CONTACT_FORM_RECIPIENTS or CONTACT_EMAIL in the environment."])
            /\ UNCHANGED <<mail, calls>>
       ELSE LET rendered == formatEmailBody(fields.name, fields.email,
                                            fields.subject, fields.message)
            IN  /\ mail' = [st |-> "sent",
                            to |-> recipients,
                            subject |-> safeSubject(fields.subject),
                            text |-> rendered.text,
                            html |-> rendered.html,
                            replyTo |-> fields.email]
                /\ calls' = [calls EXCEPT !.send = @ + 1]
                /\ pc' = "awaiting"
                /\ response' = response
    /\ UNCHANGED <<event, fields, mailConfig, envRead, directory, fromRead,
                   recipients, transport>>

\* any numeric statusCode passed on, the >= 400 test dropped
failureStatusAnyNumber(error) ==
    LET statusCode == Field(error, "statusCode")
    IN  IF statusCode.t = "number" THEN statusCode.n ELSE 500

\* lines 204-207
failureStatus(error) ==
    LET statusCode == Field(error, "statusCode")
    IN  IF statusCode.t = "number" /\ statusCode.n >= 400
        THEN statusCode.n
        ELSE 500

\* reading mailResult.to of a value that is no object
TypeError == [t |-> "object", statusCode |-> Undefined,
              message |-> Str(<<"Cannot read properties of undefined">>)]

\* lines 193-215: the awaited promise settles
SendMailSettles(Outcomes) ==
    /\ pc = "awaiting"
    /\ \E o \in Outcomes :
        /\ transport' = [st |-> "settled", outcome |-> o]
        /\ LET resolved == o.kind = "resolves"
               mailResult == o.value
               raised == ~resolved \/ mailResult.t # "object"
               error == IF ~resolved THEN o.value ELSE TypeError
           IN  IF raised
               THEN response' = Returned(failureStatus(error),
                        [error |-> "Failed to send contact email",
                         details |-> OrElse(Field(error, "message"), Null)])
               ELSE response' = Returned(200,
                        [success |-> TRUE,
                         sent_to |-> mailResult.to,
                         message_id |-> OrElse(mailResult.messageId, Null)])
    /\ pc' = "done"
    /\ UNCHANGED <<event, fields, mailConfig, envRead, directory, fromRead,
                   recipients, mail, calls>>

----------------------------------------------------------------------------
(* Inputs: requests, configuration and collaborator behaviours *)

JsonObject(name, email, subject, message) ==
    [t |-> "object", name |-> name, email |-> email,
     subject |-> subject, message |-> message]

Unparseable == [kind |-> "invalid"]
Json(value) == [kind |-> "json", value |-> value]

GoodEmail == <<"a", "@", "b", ".", "c">>

EmailInputs ==
    {Undefined, Num(7)} \cup
    {Str(s) : s \in { <<>>, <<" ">>, GoodEmail, <<" ">> \o GoodEmail \o <<" ">>,
                      <<"a", "@", "b">>, <<"@", "b", ".", "c">>,
                      <<"a", "@", ".", "c">>, <<"a", "@", "b", ".">>,
                      <<"a", " ", "@", "b", ".", "c">>,
                      <<"a", "@", "@", "b", ".", "c">>,
                      <<"a", "@", "b", ".", "c", ".", "d">> }}

SubjectInputs ==
    {Undefined} \cup
    {Str(lead \o prefix \o tail) :
        lead \in {<<>>, <<" ">>},
        prefix \in {<<>>, SubjectTested},
        tail \in SeqsUpTo({" ", "H"}, MaxTail)}

MessageInputs == {Undefined, Str(<<" ", "\n">>), Str(<<"H", "i">>)}

HandlerEvents ==
    {Unparseable, Json(Null), Json(Num(1))} \cup
    {Json(JsonObject(n, e, s, m)) :
        n \in {Undefined, Str(<<"A">>)}, e \in EmailInputs,
        s \in SubjectInputs, m \in MessageInputs}

Address == <<"x", "@", "y", ".", "c">>

\* <<CONTACT_FORM_RECIPIENTS, CONTACT_RECIPIENTS, CONTACT_EMAIL, SUPPORT_EMAIL>>
HandlerEnvs ==
    { <<Undefined, Undefined, Undefined, Undefined>>,
      <<Undefined, Undefined, Str(Address), Undefined>> }

Throws == [kind |-> "throws"]
Returns(value) == [kind |-> "returns", value |-> value]

HandlerDirectories ==
    {Throws, Returns(Null), Returns(Undefined), Returns(Arr(<<>>)),
     Returns(Arr(<<Str(<<"T", "@", "y", ".", "c">>)>>))}

FromEnv(mailFrom, smtpUser) == [MAIL_FROM |-> mailFrom, SMTP_USER |-> smtpUser]

Froms ==
    {FromEnv(m, u) :
        m \in {Undefined, Str(<<>>), Str(<<" ">>), Str(<<"F", "@", "y", ".", "c", " ">>)},
        u \in {Undefined, Str(<<"u", "@", "y", ".", "c">>)}}

\* what the transport reports on success
MailResults ==
    {[t |-> "object", to |-> <<Str(Address)>>, messageId |-> id] :
        id \in {Undefined, Str(<<"<id>">>)}}

ErrorStatusCodes ==
    {Undefined, Str(<<"5", "0", "3">>), Num(200), Num(399), Num(400), Num(503)}

Errors ==
    {Undefined} \cup
    {[t |-> "object", statusCode |-> c, message |-> m] :
        c \in ErrorStatusCodes, m \in {Undefined, Str(<<>>), Str(<<"boom">>)}}

Resolves(value) == [kind |-> "resolves", value |-> value]
Rejects(error) == [kind |-> "rejects", value |-> error]

Outcomes ==
    {Resolves(r) : r \in MailResults \cup {Undefined}} \cup
    {Rejects(e) : e \in Errors}

FewOutcomes ==
    {Resolves(r) : r \in MailResults} \cup {Rejects(Undefined)}

Next ==
    \/ Invoke(HandlerEvents)
    \/ CheckConfig
    \/ ParseAndValidate
    \/ ResolveEnv(HandlerEnvs)
    \/ ResolveDirectory(HandlerDirectories)
    \/ ResolveFrom(Froms)
    \/ Dispatch
    \/ SendMailSettles(Outcomes)
    \/ Finish

Spec == Init /\ [][Next]_vars

\* the resolver over many configurations, behind one valid request
ValidEvent ==
    Json(JsonObject(Str(<<"A">>), Str(GoodEmail), Str(<<"H", "i">>), Str(<<"H", "i">>)))

EnvStrings == SeqsUpTo({"a", "A", "b", ",", " "}, MaxEnvLen)

ResolverEnvs ==
    { <<first, second, third, fourth>> :
        first \in {Undefined} \cup {Str(s) : s \in EnvStrings},
        second \in {Undefined, Str(<<"A", ";", "b">>)},
        third \in {Undefined, Str(<<"B">>)},
        fourth \in {Undefined, Str(<<"\n", "a">>)} }

DirectoryEntries ==
    {Undefined, Str(<<" ">>), Str(<<"t">>), Str(<<"T">>), Str(<<" ", "t">>)}

ResolverDirectories ==
    {Throws, Returns(Null), Returns(Undefined), Returns(Str(<<"t">>))} \cup
    {Returns(Arr(items)) : items \in SeqsUpTo(DirectoryEntries, MaxDirLen)}

NextResolve ==
    \/ Invoke({ValidEvent})
    \/ CheckConfig
    \/ ParseAndValidate
    \/ ResolveEnv(ResolverEnvs)
    \/ ResolveDirectory(ResolverDirectories)
    \/ ResolveFrom(Froms)
    \/ Dispatch
    \/ SendMailSettles(FewOutcomes)
    \/ Finish

SpecResolve == Init /\ [][NextResolve]_vars

\* the renderer over many field values
FormatEvents ==
    {Json(JsonObject(n, e, Str(<<"H", "i">>), Str(m))) :
        n \in {Undefined, Str(<<"A">>), Str(<<"<", "&">>)},
        e \in {Str(GoodEmail), Str(<<"<", "'", "@", "b", ".", "c">>)},
        m \in SeqsUpTo({"a", "&", "<", ">", "\"", "'", "\n"}, MaxMsgLen)}

NextFormat ==
    \/ Invoke(FormatEvents)
    \/ CheckConfig
    \/ ParseAndValidate
    \/ ResolveEnv(HandlerEnvs)
    \/ ResolveDirectory({Throws, Returns(Arr(<<>>))})
    \/ ResolveFrom({FromEnv(Undefined, Str(<<"u", "@", "y", ".", "c">>))})
    \/ Dispatch
    \/ SendMailSettles(FewOutcomes)
    \/ Finish

SpecFormat == Init /\ [][NextFormat]_vars

----------------------------------------------------------------------------
(* What a finished invocation shows of its phases, read off the request and
   the collaborators' behaviour *)

Done == pc = "done"
Answered == Done /\ response.st = "returned"

Unconfigured == mailConfig.st = "called" /\ mailConfig.outcome = "false"
Configured == mailConfig.st = "called" /\ mailConfig.outcome = "true"

BodyInvalid == event.st = "given" /\ event.body.kind = "invalid"

\* the request's field f, trimmed, "" when the body has no such string
Trimmed(f) ==
    LET value == IF event.body.value.t = "object"
                 THEN event.body.value[f] ELSE Undefined
    IN  IF value.t = "string" THEN Trim(value.s) ELSE <<>>

SubjectMissing == ~BodyInvalid /\ Trimmed("subject") = <<>>
MessageMissing == ~BodyInvalid /\ Trimmed("message") = <<>>
EmailRejected ==
    ~BodyInvalid /\ (Trimmed("email") = <<>> \/ ~MatchesEmailShape(Trimmed("email")))

InputRejected ==
    event.st = "given" /\ (BodyInvalid \/ SubjectMissing \/ MessageMissing \/ EmailRejected)

Delivered ==
    /\ transport.st = "settled"
    /\ transport.outcome.kind = "resolves"
    /\ transport.outcome.value.t = "object"

Raised == transport.st = "settled" /\ transport.outcome.kind = "rejects"

\* C1: a returned response has the status (and the error text) of the first
\* phase that fails, in the order configuration, JSON parse, subject, message,
\* email, recipient resolution, dispatch: 503 when the transport is
\* unconfigured whatever the body, else 400 for an unparseable body, else 400
\* for an empty subject, else 400 for an empty message, else 400 for an empty
\* or implausible email, else 503 when no recipient is resolved, else 200 when
\* the transport delivers.
C1_StatusOfFirstFailingPhase ==
    Answered =>
        LET status == response.statusCode
            error == IF "error" \in DOMAIN response.body
                     THEN response.body.error ELSE ""
        IN  IF Unconfigured
            THEN status = 503 /\ error = "Email service is not configured. Set SMTP credentials to enable contact form notifications."
            ELSE IF BodyInvalid THEN status = 400 /\ error = "Invalid JSON"
            ELSE IF SubjectMissing THEN status = 400 /\ error = "Subject is required"
            ELSE IF MessageMissing THEN status = 400 /\ error = "Message is required"
            ELSE IF EmailRejected
                 THEN status = 400 /\ error = "A valid email address is required"
            ELSE IF recipients = <<>>
                 THEN status = 503 /\ error = "No contact recipients configured. Set CONTACT_FORM_RECIPIENTS or CONTACT_EMAIL in the environment."
            ELSE Delivered => status = 200 /\ error = ""

\* an unconfigured transport answers 503 although the body is unparseable too
C1_Witness ==
    Answered /\ Unconfigured /\ BodyInvalid /\ response.statusCode = 503

\* C2: a request that fails configuration, parsing or validation reads no
\* recipient setting and calls neither the team directory nor the transport;
\* one for which no recipient is resolved never calls the transport; the
\* transport is called at most once, and exactly once when every earlier
\* phase passes.
C2_NoLaterCollaboratorCalled ==
    /\ calls.send <= 1
    /\ (mail.st = "sent") = (calls.send = 1)
    /\ (Unconfigured \/ InputRejected) =>
           /\ envRead.st = "no" /\ fromRead.st = "no"
           /\ calls.directory = 0 /\ calls.send = 0
    /\ (Answered /\ Configured /\ ~InputRejected) =>
           calls.send = IF recipients = <<>> THEN 0 ELSE 1

\* an empty message is answered 400 with the resolver and transport untouched
C2_Witness ==
    /\ Answered /\ Configured /\ MessageMissing /\ ~SubjectMissing
    /\ response.statusCode = 400
    /\ envRead.st = "no" /\ calls.directory = 0 /\ calls.send = 0

\* C6: whatever the collaborators do (raise, return a non-list, return no
\* result object), the invocation ends by returning a response with a status
\* code, never by throwing.
C6_AlwaysReturnsAResponse ==
    Done => response.st = "returned"

\* C7: when the transport call raises, the status is the error's statusCode if
\* that is a number >= 400 and 500 otherwise, never 200; the body carries the
\* fixed description and the error's message text, or null; the transport was
\* called once.
C7_TransportFailureMapping ==
    (Done /\ Raised) =>
        LET error == transport.outcome.value
            code == IF error.t = "object" THEN error.statusCode ELSE Undefined
            text == IF error.t = "object" THEN error.message ELSE Undefined
        IN  /\ response.st = "returned"
            /\ response.statusCode =
                   IF code.t = "number" /\ code.n >= 400 THEN code.n ELSE 500
            /\ response.statusCode # 200
            /\ response.body.error = "Failed to send contact email"
            /\ response.body.details =
                   IF text.t = "string" /\ text.s # <<>> THEN text ELSE Null
            /\ calls.send = 1

\* the transport's own status is passed on
C7_Witness ==
    /\ Done /\ Raised
    /\ transport.outcome.value.t = "object"
    /\ transport.outcome.value.statusCode = Num(503)
    /\ response.statusCode = 503

\* C5: the subject handed to the transport is the validated subject itself
\* when that begins with "Website contact: " (trailing space included), and
\* "Website contact: " followed by it otherwise; so every dispatched subject
\* begins with "Website contact: ".
C5_SubjectPrefixedOnce ==
    mail.st = "sent" =>
        /\ mail.subject =
               IF StartsWith(fields.subject, SubjectPrepended)
               THEN fields.subject
               ELSE SubjectPrepended \o fields.subject
        /\ StartsWith(mail.subject, SubjectPrepended)

----------------------------------------------------------------------------
(* Recipient resolution *)

\* the comparison key of an address: trimmed and lowercased
Key(v) == IF v.t = "string" THEN ToLowerCase(Trim(v.s)) ELSE <<>>

\* the entries with a non-empty key not seen at an earlier index, in order
RECURSIVE FirstSeenFrom(_, _)
FirstSeenFrom(items, i) ==
    IF i > Len(items) THEN <<>>
    ELSE (IF /\ Key(items[i]) # <<>>
             /\ \A j \in 1 .. i - 1 : Key(items[j]) # Key(items[i])
          THEN <<items[i]>> ELSE <<>>)
         \o FirstSeenFrom(items, i + 1)

FirstSeen(items) == FirstSeenFrom(items, 1)

\* some recipient setting holds a character that is no separator
EnvHasAddress ==
    /\ envRead.st = "read"
    /\ \E i \in DOMAIN envRead.v :
           /\ envRead.v[i].t = "string"
           /\ \E j \in DOMAIN envRead.v[i].s : envRead.v[i].s[j] \notin Separators

EnvHasNone == envRead.st = "read" /\ ~EnvHasAddress

\* the addresses as written in the settings, in priority order
ConfiguredPieces ==
    Flatten([i \in DOMAIN envRead.v |->
                IF envRead.v[i].t = "string"
                THEN LET pieces == Split(envRead.v[i].s)
                     IN  [k \in DOMAIN pieces |-> Str(pieces[k])]
                ELSE <<>>])

DirectoryListed ==
    /\ directory.st = "called"
    /\ directory.outcome.kind = "returns"
    /\ directory.outcome.value.t = "array"

DirectoryHasAddress ==
    /\ DirectoryListed
    /\ \E i \in DOMAIN directory.outcome.value.items :
           Key(directory.outcome.value.items[i]) # <<>>

\* the lookup returned a list, or nothing at all, without an address in it
DirectoryHasNone ==
    /\ directory.st = "called"
    /\ directory.outcome.kind = "returns"
    /\ directory.outcome.value.t \in {"array", "undefined"}
    /\ ~DirectoryHasAddress

Resolved == pc \in {"dispatch", "awaiting"} \/ (Done /\ response.st = "returned" /\ envRead.st = "read")

\* C3: when the recipient settings of the environment yield an address, the
\* team directory is not called and the from-address settings are not read;
\* when the directory yields an address the from-address settings are not
\* read; the result is the output of the first step that yields an address.
C3_FirstSourceWins ==
    /\ EnvHasAddress =>
           /\ directory.st = "no" /\ calls.directory = 0 /\ fromRead.st = "no"
           /\ recipients = envRecipients(envRead.v) /\ recipients # <<>>
    /\ directory.st = "called" => EnvHasNone /\ calls.directory = 1
    /\ DirectoryHasAddress =>
           /\ fromRead.st = "no"
           /\ recipients = dedupeEmails(directory.outcome.value).value
           /\ recipients # <<>>
    /\ fromRead.st = "read" =>
           /\ EnvHasNone /\ DirectoryHasNone
           /\ recipients = fromRecipients(fromRead.v)

\* the settings yield an address and the mail went out with the directory unused
C3_Witness ==
    /\ EnvHasAddress /\ mail.st = "sent" /\ mail.to = recipients
    /\ directory.st = "no" /\ fromRead.st = "no"

\* C4: the resolved list holds each distinct address (by trimmed, lowercased
\* key) once, in first-seen order, and emits it in its first-seen casing as
\* configured, for the settings of the environment and for the directory.
C4_FirstSeenCasingKept ==
    Resolved =>
        /\ EnvHasAddress => recipients = FirstSeen(ConfiguredPieces)
        /\ DirectoryHasAddress =>
               recipients = FirstSeen(directory.outcome.value.items)

\* C10: with no address in the environment the result is the
\* deduplicated directory list if non-empty, otherwise the from-address alone
\* whenever MAIL_FROM or SMTP_USER is non-empty after normalization, and empty
\* only when no source yields an address.
C10_FromAddressWheneverPresent ==
    (Resolved /\ fromRead.st = "read") =>
        LET present == \/ Key(fromRead.v.MAIL_FROM) # <<>>
                       \/ Key(fromRead.v.SMTP_USER) # <<>>
        IN  /\ present => Len(recipients) = 1
            /\ recipients = <<>> => ~present

----------------------------------------------------------------------------
(* Rendering *)

EscapeChar(c) ==
    CASE c = "&" -> Amp
      [] c = "<" -> Lt
      [] c = ">" -> Gt
      [] c = "\"" -> Quot
      [] c = "'" -> Apos
      [] OTHER -> <<c>>

EscapeEach(s) == Flatten([i \in DOMAIN s |-> EscapeChar(s[i])])

EscapeAndBreakEach(s) ==
    Flatten([i \in DOMAIN s |-> IF s[i] = "\n" THEN <<"<br>">> ELSE EscapeChar(s[i])])

Contains(s, part) ==
    \E i \in 1 .. Len(s) - Len(part) + 1 : SubSeq(s, i, i + Len(part) - 1) = part

EndsWith(s, part) ==
    Len(s) >= Len(part) /\ SubSeq(s, Len(s) - Len(part) + 1, Len(s)) = part

\* C8: in the HTML body every &, <, >, " and ' of name, email and message is
\* replaced by its entity, so no raw <, >, " or ' of the request is in it;
\* message newlines become <br>; the text body holds the message verbatim.
C8_HtmlEscaped ==
    mail.st = "sent" =>
        /\ \A i \in DOMAIN mail.html : mail.html[i] \notin {"<", ">", "\"", "'"}
        /\ Contains(mail.html, <<"<blockquote>">>
                               \o EscapeAndBreakEach(fields.message)
                               \o <<"</blockquote>">>)
        /\ fields.name # <<>> =>
               Contains(mail.html, <<"<li><strong>Name:</strong> ">>
                                   \o EscapeEach(fields.name) \o <<"</li>">>)
        /\ Contains(mail.html, <<"<li><strong>Email:</strong> ">>
                               \o EscapeEach(fields.email) \o <<"</li>">>)
        /\ EndsWith(mail.text, fields.message)

\* a message with markup, an ampersand and a newline went out
C8_Witness ==
    /\ mail.st = "sent"
    /\ fields.message = <<"<", "\n", "&">>
    /\ fields.name = <<"<", "&">>
    /\ Contains(mail.html, Lt \o <<"<br>">> \o Amp)

\* C9: in the text body an empty line stands between the header lines
\* (timestamp, Name and Email when present) and the raw message.
C9_BlankLineBeforeMessage ==
    mail.st = "sent" =>
        EndsWith(mail.text, <<"\n", "\n">> \o fields.message)

====
